---------------------------- MODULE Spec2Model ----------------------------
(***************************************************************************)
(* Model of the Sui Move CI/CD workflow generator.                         *)
(*                                                                         *)
(* The repository holds two copies of generate_ci.py:                      *)
(*   "root"   : src/src/generate_ci.py                (one job)            *)
(*   "design" : src/sui-cicd-design/src/generate_ci.py (four jobs)         *)
(* Both define class SuiCIGenerator and main(); they differ in the jobs    *)
(* that generate_workflow() assembles.  The variable `program` says which  *)
(* copy is running; it never changes.                                      *)
(*                                                                         *)
(* Python values are modelled as tagged records, so that a string, a list  *)
(* and a mapping are never equal, and a mapping keeps its insertion order  *)
(* (a sequence of <<key, value>> pairs), as a Python dict does.            *)
(***************************************************************************)
EXTENDS Integers, Sequences, FiniteSets, TLC

VARIABLES
    program,     \* which copy of generate_ci.py runs: "root" or "design"
    mode,        \* "cli": main() is run;  "api": a caller uses SuiCIGenerator
    args,        \* argparse namespace of main(): config, project_root, enable_deployment
    cfgfile,     \* content of the file named by --config
    fs,          \* the filesystem: one record per project root
    pc,          \* position of the running code
    config,      \* main()'s local `config` / the dict given to the constructor
    self,        \* the SuiCIGenerator instance (NoneVal before construction)
    workflow,    \* the document returned by generate_workflow() (NoneVal before)
    structure,   \* the last result of detect_project_structure() (NoneVal before)
    stdout,      \* the lines printed so far
    exit,        \* exit status of the process (NoneVal while running)
    chunk,       \* save_workflow: number of buffers of the document flushed so far
    runs,        \* number of runs of main() started / API calls made
    firstOut,    \* history: the output file after the first successful save
    docs         \* history: the documents generate_workflow() returned, in order

vars == <<program, mode, args, cfgfile, fs, pc, config, self, workflow,
          structure, stdout, exit, chunk, runs, firstOut, docs>>

-----------------------------------------------------------------------------
(* Bounds of the model *)

\* how many times main() is run in a row with the same arguments
MaxRuns == 2
\* how many API calls a caller of SuiCIGenerator makes
MaxCalls == 3
\* in how many buffer flushes yaml.safe_dump's output reaches the file
WriteChunks == 2

-----------------------------------------------------------------------------
(* Python values *)

NoneVal == [t |-> "none"]
Str(s) == [t |-> "str", s |-> s]
Bool(b) == [t |-> "bool", b |-> b]
PyInt(n) == [t |-> "int", n |-> n]
List(items) == [t |-> "list", items |-> items]
Map(pairs) == [t |-> "map", pairs |-> pairs]
KV(k, v) == <<Str(k), v>>

IsStr(x) == x.t = "str"
IsList(x) == x.t = "list"
IsMap(x) == x.t = "map"

\* the keys of a mapping, in insertion order
Keys(m) == [i \in 1..Len(m.pairs) |-> m.pairs[i][1]]
KeySet(m) == {m.pairs[i][1] : i \in 1..Len(m.pairs)}
HasKey(m, k) == Str(k) \in KeySet(m)
\* m[k] of a dict: the value of the pair whose key is k
Get(m, k) == m.pairs[CHOOSE i \in 1..Len(m.pairs) : m.pairs[i][1] = Str(k)][2]
Range(s) == {s[i] : i \in 1..Len(s)}


-----------------------------------------------------------------------------
(* The string payloads of the generated document.                          *)
(* A multi-line shell script is one opaque string: the generator copies it *)
(* into the document and never looks inside.  Each is named after the step *)
(* that carries it.                                                        *)

RunInstallSui == "\n# Install Homebrew ... build-essential ... brew install sui\n"
RunInstallSuiJq == "\n# Install Homebrew ... build-essential jq ... brew install sui\n"
RunBuild == "\n# Verify sui ... sui move build\n"
RunTest == "\n# Verify sui ... sui move test\n"
RunLinters == "\necho Running Sui Built-in Linters ... sui move build --lint\n"
RunBestPractices == "\necho Security Best Practices Analysis ...\n"
RunFormal == "\necho Formal Verification Analysis ...\n"
RunReport == "\necho Generating Security Report ...\n"
RunSetupAndDeployDesign == "\n# $SUI_CONFIG $SUI_KEYSTORE $SUI_ALIASES ... sui client publish (design)\n"
RunSetupAndDeploy == "\n# $SUI_CONFIG $SUI_KEYSTORE $SUI_ALIASES ... sui client publish\n"
RunRequestTokens == "\nACTIVE_ADDRESS=$(sui client active-address) ... curl faucet\n"
RunDeployTestnet == "\n# $SUI_CONFIG $SUI_KEYSTORE ... sui client publish\n"
RunVerify == "\n# $SUI_CONFIG ... sui client transactions\n"

\* the triple-quoted strings of the source: each holds line breaks
MultiLine ==
    {RunInstallSui, RunInstallSuiJq, RunBuild, RunTest, RunLinters,
     RunBestPractices, RunFormal, RunReport, RunSetupAndDeployDesign,
     RunSetupAndDeploy, RunRequestTokens, RunDeployTestnet, RunVerify}

\* the scripts that publish the package (contain `sui client publish`)
PublishScripts == {RunSetupAndDeployDesign, RunSetupAndDeploy, RunDeployTestnet}

\* the environment variables a script expands that no earlier line of it sets
\* and the runner does not provide ($SUI_CONFIG, $SUI_KEYSTORE, $SUI_ALIASES)
ScriptReads(script) ==
    CASE script \in {RunSetupAndDeployDesign, RunSetupAndDeploy} ->
            {"SUI_CONFIG", "SUI_KEYSTORE", "SUI_ALIASES"}
      [] script = RunDeployTestnet -> {"SUI_CONFIG", "SUI_KEYSTORE"}
      [] script = RunVerify -> {"SUI_CONFIG"}
      [] OTHER -> {}

DeployGuard == "github.ref == 'refs/heads/main' && github.event_name == 'push'"
TestGuard == "github.event_name == 'pull_request' || github.ref == 'refs/heads/main'"
FailureGuard == "failure() && github.ref == 'refs/heads/main'"
Workspace == "${{ github.workspace }}"

StepCheckout == Map(<<KV("name", Str("Checkout code")),
                      KV("uses", Str("actions/checkout@v4"))>>)
StepInstall(script) == Map(<<KV("name", Str("Install Homebrew and Sui")),
                             KV("run", Str(script))>>)
StepRun(name, script) == Map(<<KV("name", Str(name)),
                               KV("run", Str(script)),
                               KV("working-directory", Str(Workspace))>>)

\* mutant: the aliases secret is not passed on
DeployEnv_no_aliases ==
    Map(<<KV("SUI_NETWORK", Str("devnet")),
          KV("SUI_CONFIG", Str("${{ secrets.SUI_CONFIG }}")),
          KV("SUI_KEYSTORE", Str("${{ secrets.SUI_KEYSTORE }}"))>>)

DeployEnv == Map(<<KV("SUI_NETWORK", Str("devnet")),
                   KV("SUI_CONFIG", Str("${{ secrets.SUI_CONFIG }}")),
                   KV("SUI_KEYSTORE", Str("${{ secrets.SUI_KEYSTORE }}")),
                   KV("SUI_ALIASES", Str("${{ secrets.SUI_ALIASES }}"))>>)

-----------------------------------------------------------------------------
(* sui-cicd-design/src/generate_ci.py: the four job generators *)

generate_build_job ==
    Map(<<KV("name", Str("Build")),
          KV("runs-on", Str("ubuntu-latest")),
          KV("steps", List(<<StepCheckout,
                             StepInstall(RunInstallSui),
                             StepRun("Build Move modules", RunBuild)>>))>>)

generate_test_job ==
    Map(<<KV("name", Str("Test")),
          KV("runs-on", Str("ubuntu-latest")),
          KV("needs", Str("build")),
          KV("steps", List(<<StepCheckout,
                             StepInstall(RunInstallSui),
                             StepRun("Run Move tests", RunTest)>>))>>)

generate_security_job ==
    Map(<<KV("name", Str("Security Analysis")),
          KV("runs-on", Str("ubuntu-latest")),
          KV("needs", Str("build")),
          KV("steps", List(<<
              StepCheckout,
              StepInstall(RunInstallSuiJq),
              StepRun("Run Sui Built-in Linters", RunLinters),
              StepRun("Security Best Practices Check", RunBestPractices),
              StepRun("Formal Verification Check", RunFormal),
              StepRun("Generate Security Report", RunReport),
              Map(<<KV("name", Str("Upload Security Report")),
                    KV("uses", Str("actions/upload-artifact@v4")),
                    KV("with", Map(<<KV("name", Str("security-report")),
                                     KV("path", Str("security-report.md"))>>))>>)
          >>))>>)

\* mutant: the deploy job without its `if`
generate_deploy_job_unguarded ==
    Map(<<KV("name", Str("Deploy to Devnet")),
          KV("runs-on", Str("ubuntu-latest")),
          KV("needs", List(<<Str("test"), Str("security")>>)),
          KV("env", DeployEnv),
          KV("steps", List(<<
              StepCheckout,
              StepInstall(RunInstallSuiJq),
              Map(<<KV("name", Str("Setup Sui CLI config and Deploy")),
                    KV("run", Str(RunSetupAndDeployDesign))>>)
          >>))>>)

generate_deploy_job ==
    Map(<<KV("name", Str("Deploy to Devnet")),
          KV("runs-on", Str("ubuntu-latest")),
          KV("needs", List(<<Str("test"), Str("security")>>)),
          KV("if", Str(DeployGuard)),
          KV("env", DeployEnv),
          KV("steps", List(<<
              StepCheckout,
              StepInstall(RunInstallSuiJq),
              Map(<<KV("name", Str("Setup Sui CLI config and Deploy")),
                    KV("run", Str(RunSetupAndDeployDesign))>>)
          >>))>>)

-----------------------------------------------------------------------------
(* src/generate_ci.py: the single job *)

generate_env_setup ==
    Map(<<KV("name", Str("Build and Deploy")),
          KV("runs-on", Str("${{ matrix.os }}")),
          KV("strategy", Map(<<KV("matrix",
              Map(<<KV("os", List(<<Str("ubuntu-latest")>>)),
                    KV("rust", List(<<Str("stable")>>))>>))>>)),
          KV("steps", List(<<
              StepCheckout,
              StepInstall(RunInstallSui),
              StepRun("Build Move modules", RunBuild),
              Map(<<KV("name", Str("Run Move tests")),
                    KV("if", Str(TestGuard)),
                    KV("run", Str(RunTest)),
                    KV("working-directory", Str(Workspace))>>),
              Map(<<KV("name", Str("Setup Sui CLI config and Deploy")),
                    KV("if", Str(DeployGuard)),
                    KV("env", DeployEnv),
                    KV("run", Str(RunSetupAndDeploy))>>),
              Map(<<KV("name", Str("Request Test Tokens")),
                    KV("if", Str(FailureGuard)),
                    KV("run", Str(RunRequestTokens))>>),
              Map(<<KV("name", Str("Deploy to testnet")),
                    KV("if", Str(DeployGuard)),
                    KV("env", DeployEnv),
                    KV("run", Str(RunDeployTestnet))>>),
              Map(<<KV("name", Str("Verify deployment")),
                    KV("if", Str(DeployGuard)),
                    KV("env", Map(<<KV("SUI_CONFIG",
                                       Str("${{ secrets.SUI_CONFIG }}"))>>)),
                    KV("run", Str(RunVerify))>>)
          >>))>>)

-----------------------------------------------------------------------------
(* generate_workflow(), in both copies *)

\* mutant: the workflow is triggered by pushes only
Triggers_push_only ==
    Map(<<KV("push", Map(<<KV("branches",
                              List(<<Str("main"), Str("develop")>>))>>))>>)

Triggers ==
    Map(<<KV("push", Map(<<KV("branches",
                              List(<<Str("main"), Str("develop")>>))>>)),
          KV("pull_request", Map(<<KV("branches",
                              List(<<Str("main"), Str("develop")>>))>>))>>)

JobsDesign ==
    Map(<<KV("build", generate_build_job),
          KV("test", generate_test_job),
          KV("security", generate_security_job),
          KV("deploy", generate_deploy_job)>>)

JobsRoot == Map(<<KV("build-and-deploy", generate_env_setup)>>)

generate_workflow_design ==
    Map(<<KV("name", Str("Sui Smart Contract CI/CD")),
          KV("on", Triggers),
          KV("env", Map(<<KV("RUST_BACKTRACE", Str("1")),
                          KV("SUI_LOG_LEVEL", Str("info"))>>)),
          KV("jobs", JobsDesign)>>)

generate_workflow_root ==
    Map(<<KV("name", Str("Sui Smart Contract CI/CD")),
          KV("on", Triggers),
          KV("env", Map(<<KV("RUST_BACKTRACE", Str("1")),
                          KV("SUI_LOG_LEVEL", Str("info")),
                          KV("SUI_BRANCH", Str("devnet"))>>)),
          KV("jobs", JobsRoot)>>)

\* mutant: the generator keeps the probe result and, once it has one that
\* found no tests, generates no jobs
generate_workflow_gated ==
    LET doc == IF program = "design" THEN generate_workflow_design
                                     ELSE generate_workflow_root
    IN IF structure # [t |-> "none"] /\ ~structure.has_tests
       THEN Map([i \in 1..Len(doc.pairs) |->
                   IF doc.pairs[i][1] = Str("jobs")
                   THEN <<Str("jobs"), Map(<<>>)>> ELSE doc.pairs[i]])
       ELSE doc

\* mutant: without enable_deployment the deploy job (design) or the steps
\* after the tests (root) are left out
generate_workflow_flagged ==
    IF HasKey(config, "enable_deployment")
          /\ Get(config, "enable_deployment") = Bool(TRUE)
    THEN IF program = "design" THEN generate_workflow_design
                               ELSE generate_workflow_root
    ELSE IF program = "design"
         THEN Map(<<generate_workflow_design.pairs[1],
                    generate_workflow_design.pairs[2],
                    generate_workflow_design.pairs[3],
                    KV("jobs", Map(SubSeq(JobsDesign.pairs, 1, 3)))>>)
         ELSE Map(<<generate_workflow_root.pairs[1],
                    generate_workflow_root.pairs[2],
                    generate_workflow_root.pairs[3],
                    KV("jobs", Map(<<KV("build-and-deploy",
                        Map(<<generate_env_setup.pairs[1],
                              generate_env_setup.pairs[2],
                              generate_env_setup.pairs[3],
                              KV("steps", List(SubSeq(
                                  generate_env_setup.pairs[4][2].items, 1, 4)))>>))>>))>>)

\* generate_workflow(self): reads nothing of self, of the configuration or of
\* the filesystem
generate_workflow ==
    IF program = "design" THEN generate_workflow_design
                          ELSE generate_workflow_root

-----------------------------------------------------------------------------
(* yaml.safe_dump(workflow, f, sort_keys=False, default_flow_style=False)  *)
(*                                                                         *)
(* The YAML text is modelled as the tree of nodes the emitter writes: a    *)
(* scalar with the quoting style chosen for it, a block or flow sequence,  *)
(* a block or flow mapping with its keys in the order written.             *)

\* YAML 1.1 implicit resolution of a plain (unquoted) scalar
BoolTrueWords == {"yes", "Yes", "YES", "true", "True", "TRUE", "on", "On", "ON"}
BoolFalseWords == {"no", "No", "NO", "false", "False", "FALSE", "off", "Off", "OFF"}
NullWords == {"", "~", "null", "Null", "NULL"}
DigitValue == [d \in {"0", "1", "2", "3", "4", "5", "6", "7", "8", "9"} |->
    CASE d = "0" -> 0 [] d = "1" -> 1 [] d = "2" -> 2 [] d = "3" -> 3
      [] d = "4" -> 4 [] d = "5" -> 5 [] d = "6" -> 6 [] d = "7" -> 7
      [] d = "8" -> 8 [] d = "9" -> 9]

ImplicitTag(s) ==
    IF s \in BoolTrueWords \cup BoolFalseWords THEN "bool"
    ELSE IF s \in DOMAIN DigitValue THEN "int"
    ELSE IF s \in NullWords THEN "null"
    ELSE "str"

\* mutant: a str that holds no line break is always written plain
ScalarStyle_plain(s) == IF s \in MultiLine THEN "double" ELSE "plain"

\* the style the emitter chooses for a str: plain only when the plain form
\* resolves back to a str and holds no line break; the scripts (line breaks
\* next to spaces, non-ASCII characters) are double-quoted and escaped
ScalarStyle(s) ==
    IF s \in MultiLine THEN "double"
    ELSE IF ImplicitTag(s) # "str" THEN "single"
    ELSE "plain"

YScalar(style, text) == [y |-> "scalar", style |-> style, text |-> text]
YSeq(flow, items) == [y |-> "seq", flow |-> flow, items |-> items]
YMap(flow, pairs) == [y |-> "map", flow |-> flow, pairs |-> pairs]

\* default_flow_style=False: every collection is written in block style
default_flow_style == FALSE

\* mutant: sort_keys left at its default
sort_keys_default == TRUE

\* sort_keys=False
sort_keys == FALSE

\* the keys of the generated documents, in the order sorted() puts str keys
\* (by code point: upper case, then lower case; '-' before the letters)
KeyOrder ==
    <<"RUST_BACKTRACE", "SUI_ALIASES", "SUI_BRANCH", "SUI_CONFIG",
      "SUI_KEYSTORE", "SUI_LOG_LEVEL", "SUI_NETWORK",
      "branches", "build", "build-and-deploy", "deploy", "env", "if", "jobs",
      "matrix", "name", "needs", "on", "os", "path", "pull_request", "push",
      "run", "runs-on", "rust", "security", "steps", "strategy", "test",
      "uses", "with", "working-directory">>

\* sorted(mapping.items()): the pairs by ascending key
SortedPairs(pairs) ==
    LET keys == {pairs[i][1] : i \in 1..Len(pairs)}
        order == SelectSeq(KeyOrder, LAMBDA k : Str(k) \in keys)
    IN [i \in 1..Len(order) |->
           pairs[CHOOSE j \in 1..Len(pairs) : pairs[j][1] = Str(order[i])]]

\* the pairs of a mapping in the order the representer writes them:
\* insertion order unless sort_keys
WrittenPairs(pairs) == IF sort_keys THEN SortedPairs(pairs) ELSE pairs

RECURSIVE safe_dump(_)
safe_dump(x) ==
    CASE x.t = "str" -> YScalar(ScalarStyle(x.s), x.s)
      [] x.t = "list" ->
            YSeq(default_flow_style,
                 [i \in 1..Len(x.items) |-> safe_dump(x.items[i])])
      [] x.t = "map" ->
            YMap(default_flow_style,
                 [i \in 1..Len(x.pairs) |->
                     <<safe_dump(WrittenPairs(x.pairs)[i][1]),
                       safe_dump(WrittenPairs(x.pairs)[i][2])>>])

(* A standard YAML reader (yaml.safe_load) applied to the text.            *)
\* a plain scalar spanning several lines is folded: its line breaks are lost
Folded(s) == "folded: " \o s

LoadScalar(n) ==
    IF n.style = "plain"
    THEN CASE n.text \in MultiLine -> Str(Folded(n.text))
           [] ImplicitTag(n.text) = "bool" -> Bool(n.text \in BoolTrueWords)
           [] ImplicitTag(n.text) = "int" -> PyInt(DigitValue[n.text])
           [] ImplicitTag(n.text) = "null" -> NoneVal
           [] OTHER -> Str(n.text)
    ELSE Str(n.text)

RECURSIVE safe_load(_)
safe_load(n) ==
    CASE n.y = "scalar" -> LoadScalar(n)
      [] n.y = "seq" -> List([i \in 1..Len(n.items) |-> safe_load(n.items[i])])
      [] n.y = "map" ->
            Map([i \in 1..Len(n.pairs) |->
                    <<safe_load(n.pairs[i][1]), safe_load(n.pairs[i][2])>>])

-----------------------------------------------------------------------------
(* The filesystem.                                                         *)
(* For each project root r: how many of the directories r, r/.github,      *)
(* r/.github/workflows exist (depth, a prefix of the path), the content of *)
(* r/.github/workflows/sui-ci.yml, and the entries the probe looks at.     *)
(* A file's content is the sequence of buffers written to it.              *)

Roots == {".", "demo"}
Programs == {"root", "design"}

\* Path(project_root) / '.github' / 'workflows'
WorkflowDir(root) == <<root, ".github", "workflows">>
NoFile == [present |-> FALSE, data |-> <<>>]
File(data) == [present |-> TRUE, data |-> data]
\* a sui-ci.yml that this program did not write
StaleData == <<[text |-> YScalar("plain", "previous content"), part |-> 1]>>

\* directory entries are <<stem, suffix>>
MoveFile == <<"contract", ".move">>
OtherFile == <<"README", ".md">>
NoDir == [present |-> FALSE, entries |-> {}]
Dir(entries) == [present |-> TRUE, entries |-> entries]
ProbeDirs == {NoDir, Dir({OtherFile}), Dir({MoveFile, OtherFile})}

RootState(depth, out, toml, tests, sources) ==
    [depth |-> depth, out |-> out, move_toml |-> toml,
     tests |-> tests, sources |-> sources]

\* the output path of one root: the file can exist only in an existing directory
OutStates == {<<d, NoFile>> : d \in 0..3} \cup {<<3, File(StaleData)>>}

\* the content of the complete file for document d
FileOf(d) == [i \in 1..WriteChunks |-> [text |-> safe_dump(d), part |-> i]]

-----------------------------------------------------------------------------
(* SuiCIGenerator.detect_project_structure *)

\* Path.glob('*.move'): the entries of the directory whose name ends in .move;
\* nothing when the directory does not exist
GlobMove(dir) == {e \in dir.entries : dir.present /\ e[2] = ".move"}

\* mutant: has_sources looks into tests/ (a copied line)
detect_project_structure_copied(gen) ==
    LET r == fs[gen.project_root] IN
    [has_move_toml |-> r.move_toml,
     has_tests |-> GlobMove(r.tests) # {},
     has_sources |-> GlobMove(r.tests) # {}]

detect_project_structure(gen) ==
    LET r == fs[gen.project_root] IN
    [has_move_toml |-> r.move_toml,
     has_tests |-> GlobMove(r.tests) # {},
     has_sources |-> GlobMove(r.sources) # {}]

-----------------------------------------------------------------------------
(* main(): the configuration *)

\* mutant: dict.setdefault instead of assignment, the first value wins
SetItem_keep_first(d, k, v) ==
    IF k \in KeySet(d) THEN d ELSE Map(Append(d.pairs, <<k, v>>))

\* d[k] = v of a dict: an existing key keeps its place, a new key is appended
SetItem(d, k, v) ==
    IF k \in KeySet(d)
    THEN Map([i \in 1..Len(d.pairs) |->
                 IF d.pairs[i][1] = k THEN <<k, v>> ELSE d.pairs[i]])
    ELSE Map(Append(d.pairs, <<k, v>>))

RECURSIVE UpdateFrom(_, _, _)
UpdateFrom(d, pairs, i) ==
    IF i > Len(pairs) THEN d
    ELSE UpdateFrom(SetItem(d, pairs[i][1], pairs[i][2]), pairs, i + 1)

\* dict.update(other) accepts a mapping, or an iterable of 2-item sequences
Updatable(other) ==
    \/ other.t = "map"
    \/ /\ other.t = "list"
       /\ \A i \in 1..Len(other.items) :
             other.items[i].t = "list" /\ Len(other.items[i].items) = 2

update(d, other) ==
    IF other.t = "map" THEN UpdateFrom(d, other.pairs, 1)
    ELSE UpdateFrom(d, [i \in 1..Len(other.items) |->
                           <<other.items[i].items[1], other.items[i].items[2]>>], 1)

\* config = {'project_root': args.project_root,
\*           'enable_deployment': args.enable_deployment}
CliConfig(a) ==
    Map(<<KV("project_root", Str(a.project_root)),
          KV("enable_deployment", Bool(a.enable_deployment))>>)

\* what the file named by --config can hold
OptPairs(k, vals) == {<<>>} \cup {<<KV(k, v)>> : v \in vals}
JsonObjects ==
    {Map(p \o e) : p \in OptPairs("project_root", {Str("demo")}),
                   e \in OptPairs("enable_deployment", {Bool(TRUE), Bool(FALSE)})}
    \cup {Map(<<KV("project_root", PyInt(5))>>),
          Map(<<KV("network", Str("testnet"))>>)}
CfgMissing == [k |-> "missing", v |-> NoneVal]
CfgMalformed == [k |-> "malformed", v |-> NoneVal]
CfgJson(v) == [k |-> "json", v |-> v]
CfgFiles ==
    {CfgMissing, CfgMalformed, CfgJson(List(<<>>)), CfgJson(NoneVal)}
    \cup {CfgJson(o) : o \in JsonObjects}

ArgsSet ==
    [config : {NoneVal, Str("ci.json")},
     project_root : Roots,
     enable_deployment : BOOLEAN]

\* the dicts a caller of SuiCIGenerator(config) passes
ApiConfigs ==
    {Map(<<>>),
     Map(<<KV("project_root", Str("demo"))>>),
     Map(<<KV("project_root", Str(".")), KV("enable_deployment", Bool(TRUE))>>)}

-----------------------------------------------------------------------------
(* Initial states *)

\* a root that does not exist holds nothing
EmptyLayout(o) == RootState(o[1], o[2], FALSE, NoDir, NoDir)
FullLayout(o) == RootState(o[1], o[2], TRUE, Dir({MoveFile, OtherFile}),
                           Dir({MoveFile}))
Layouts(o) ==
    IF o[1] = 0 THEN {EmptyLayout(o)}
    ELSE {RootState(o[1], o[2], m, t, s) :
             m \in BOOLEAN, t \in ProbeDirs, s \in ProbeDirs}

\* the current directory exists: nothing under it yet, or an earlier output
CwdOutStates == {o \in OutStates : o[1] = 1 \/ o[2].present}

InitFsCli ==
    {[r \in Roots |-> IF r = "." THEN FullLayout(c) ELSE EmptyLayout(d)] :
        c \in CwdOutStates, d \in {o \in OutStates : o[1] # 1}}

InitFsApi ==
    {[r \in Roots |-> IF r = "." THEN FullLayout(<<1, NoFile>>) ELSE l] :
        l \in UNION {Layouts(d) : d \in {o \in OutStates : o[1] \in {0, 2} \/ o[2].present}}}

InitCommon ==
    /\ program \in Programs
    /\ self = NoneVal
    /\ workflow = NoneVal
    /\ structure = NoneVal
    /\ stdout = <<>>
    /\ exit = NoneVal
    /\ chunk = 0
    /\ firstOut = NoneVal
    /\ docs = <<>>

InitCli ==
    /\ mode = "cli"
    /\ args \in ArgsSet
    /\ cfgfile \in (IF args.config = NoneVal THEN {CfgMissing} ELSE CfgFiles)
    /\ fs \in InitFsCli
    /\ pc = "start"
    /\ config = NoneVal
    /\ runs = 1

InitApi ==
    /\ mode = "api"
    /\ args = NoneVal
    /\ cfgfile = CfgMissing
    /\ fs \in InitFsApi
    /\ pc = "configured"
    /\ config \in ApiConfigs
    /\ runs = 0

Init == InitCommon /\ (InitCli \/ InitApi)

-----------------------------------------------------------------------------
(* An uncaught exception: main() has no handler, the interpreter prints    *)
(* the traceback and exits with status 1                                   *)

\* mutant: the exception is reported but the process exits with status 0
Raise_exit_zero ==
    /\ pc' = "failed"
    /\ exit' = PyInt(0)

Raise ==
    /\ pc' = "failed"
    /\ exit' = PyInt(1)

-----------------------------------------------------------------------------
(* main(): build the configuration (argparse result, then --config) *)

LoadConfigOk ==
    /\ pc = "start"
    /\ \/ /\ args.config = NoneVal
          /\ config' = CliConfig(args)
       \/ /\ args.config # NoneVal
          /\ cfgfile.k = "json"
          /\ Updatable(cfgfile.v)
          /\ config' = update(CliConfig(args), cfgfile.v)
    /\ pc' = "configured"
    /\ UNCHANGED <<program, mode, args, cfgfile, fs, self, workflow, structure,
                   stdout, exit, chunk, runs, firstOut, docs>>

\* mutant: the error is swallowed and the run goes on with the command line
LoadConfigFail_swallowed ==
    /\ pc = "start"
    /\ args.config # NoneVal
    /\ \/ cfgfile.k \in {"missing", "malformed"}
       \/ cfgfile.k = "json" /\ ~Updatable(cfgfile.v)
    /\ config' = CliConfig(args)
    /\ pc' = "configured"
    /\ UNCHANGED <<program, mode, args, cfgfile, fs, self, workflow, structure,
                   stdout, exit, chunk, runs, firstOut, docs>>

\* open() fails, json.load() fails, or dict.update() rejects the value
LoadConfigFail ==
    /\ pc = "start"
    /\ args.config # NoneVal
    /\ \/ cfgfile.k \in {"missing", "malformed"}
       \/ cfgfile.k = "json" /\ ~Updatable(cfgfile.v)
    /\ config' = CliConfig(args)
    /\ Raise
    /\ UNCHANGED <<program, mode, args, cfgfile, fs, self, workflow, structure,
                   stdout, chunk, runs, firstOut, docs>>

-----------------------------------------------------------------------------
(* SuiCIGenerator.__init__ *)

\* config.get('project_root', '.')
ConfiguredRoot(c) ==
    IF HasKey(c, "project_root") THEN Get(c, "project_root") ELSE Str(".")

\* mutant: the workflow directory is taken relative to the current directory
NewGenerator_cwd(c) ==
    [config |-> c,
     project_root |-> ConfiguredRoot(c).s,
     workflow_dir |-> WorkflowDir(".")]

NewGenerator(c) ==
    [config |-> c,
     project_root |-> ConfiguredRoot(c).s,
     workflow_dir |-> WorkflowDir(ConfiguredRoot(c).s)]

Construct ==
    /\ pc = "configured"
    /\ IF IsStr(ConfiguredRoot(config))
       THEN /\ self' = NewGenerator(config)
            /\ pc' = IF mode = "cli" THEN "constructed" ELSE "idle"
            /\ UNCHANGED exit
       ELSE \* Path() of a value that is no string raises TypeError
            /\ Raise
            /\ UNCHANGED self
    /\ UNCHANGED <<program, mode, args, cfgfile, fs, config, workflow,
                   structure, stdout, chunk, runs, firstOut, docs>>

-----------------------------------------------------------------------------
(* main(): workflow = generator.generate_workflow() *)

\* mutant: main() probes the project and leaves the jobs out when there is
\* no Move.toml
Generate_probed ==
    /\ mode = "cli"
    /\ pc = "constructed"
    /\ workflow' = IF detect_project_structure(self).has_move_toml
                   THEN generate_workflow
                   ELSE Map(SubSeq(generate_workflow.pairs, 1, 3))
    /\ docs' = Append(docs, workflow')
    /\ pc' = "generated"
    /\ UNCHANGED <<program, mode, args, cfgfile, fs, config, self, structure,
                   stdout, exit, chunk, runs, firstOut>>

Generate ==
    /\ mode = "cli"
    /\ pc = "constructed"
    /\ workflow' = generate_workflow
    /\ docs' = Append(docs, workflow')
    /\ pc' = "generated"
    /\ UNCHANGED <<program, mode, args, cfgfile, fs, config, self, structure,
                   stdout, exit, chunk, runs, firstOut>>

-----------------------------------------------------------------------------
(* SuiCIGenerator.save_workflow(workflow), statement by statement: every   *)
(* statement touches the filesystem and can raise OSError                  *)

OutRoot == self.workflow_dir[1]

\* main() calls save_workflow right after generate_workflow; a caller of the
\* class calls it with a document it got from generate_workflow
SaveCalled ==
    \/ mode = "cli" /\ pc = "generated"
    \/ mode = "api" /\ pc = "idle" /\ workflow # NoneVal /\ runs < MaxCalls

\* mutant: mkdir(parents=True) without exist_ok
exist_ok_false == FALSE

\* self.workflow_dir.mkdir(parents=True, exist_ok=True)
exist_ok == TRUE

\* mutant: save_workflow also lays out sources/ when it is missing
SaveMkdirOk_scaffold ==
    /\ SaveCalled
    /\ exist_ok \/ fs[OutRoot].depth < 3
    /\ fs' = [fs EXCEPT ![OutRoot].depth = 3,
                        ![OutRoot].sources = IF @.present THEN @ ELSE Dir({})]
    /\ pc' = "save_open"
    /\ runs' = IF mode = "api" THEN runs + 1 ELSE runs
    /\ UNCHANGED <<program, mode, args, cfgfile, config, self, workflow,
                   structure, stdout, exit, chunk, firstOut, docs>>

\* every missing directory of the path is created, the outermost first
SaveMkdirOk ==
    /\ SaveCalled
    /\ exist_ok \/ fs[OutRoot].depth < 3
    /\ fs' = [fs EXCEPT ![OutRoot].depth = 3]
    /\ pc' = "save_open"
    /\ runs' = IF mode = "api" THEN runs + 1 ELSE runs
    /\ UNCHANGED <<program, mode, args, cfgfile, config, self, workflow,
                   structure, stdout, exit, chunk, firstOut, docs>>

\* a directory cannot be created (permissions, a file in the way, no space):
\* the directories created before it stay
SaveMkdirFail ==
    /\ SaveCalled
    /\ \/ /\ fs[OutRoot].depth < 3
          /\ \E d \in fs[OutRoot].depth..2 : fs' = [fs EXCEPT ![OutRoot].depth = d]
       \/ /\ ~exist_ok
          /\ fs[OutRoot].depth = 3
          /\ UNCHANGED fs
    /\ Raise
    /\ runs' = IF mode = "api" THEN runs + 1 ELSE runs
    /\ UNCHANGED <<program, mode, args, cfgfile, config, self, workflow,
                   structure, stdout, chunk, firstOut, docs>>

\* mutant: mode 'a', the existing content is kept
OpenForWriting_append(file) == File(file.data)

\* open(self.workflow_dir / 'sui-ci.yml', 'w'): creates the file, or empties
\* the existing one
OpenForWriting(file) == File(<<>>)

SaveOpenOk ==
    /\ pc = "save_open"
    /\ fs' = [fs EXCEPT ![OutRoot].out = OpenForWriting(@)]
    /\ chunk' = 0
    /\ pc' = "save_write"
    /\ UNCHANGED <<program, mode, args, cfgfile, config, self, workflow,
                   structure, stdout, exit, runs, firstOut, docs>>

\* mutant: when the file cannot be opened, save_workflow is tried again
SaveOpenFail_retry ==
    /\ pc = "save_open"
    /\ pc' = "generated"
    /\ UNCHANGED <<program, mode, args, cfgfile, fs, config, self, workflow,
                   structure, stdout, exit, chunk, runs, firstOut, docs>>

SaveOpenFail ==
    /\ pc = "save_open"
    /\ Raise
    /\ UNCHANGED <<program, mode, args, cfgfile, fs, config, self, workflow,
                   structure, stdout, chunk, runs, firstOut, docs>>

\* yaml.safe_dump(workflow, f, ...): the text reaches the file buffer by buffer
SaveWriteOk ==
    /\ pc = "save_write"
    /\ chunk < WriteChunks
    /\ fs' = [fs EXCEPT ![OutRoot].out.data =
                 Append(@, [text |-> safe_dump(workflow), part |-> chunk + 1])]
    /\ chunk' = chunk + 1
    /\ UNCHANGED <<program, mode, args, cfgfile, pc, config, self, workflow,
                   structure, stdout, exit, runs, firstOut, docs>>

\* a write fails (disk full, I/O error): the with statement closes the file
\* and the exception propagates; what was written stays
SaveWriteFail ==
    /\ pc = "save_write"
    /\ chunk < WriteChunks
    /\ Raise
    /\ UNCHANGED <<program, mode, args, cfgfile, fs, config, self, workflow,
                   structure, stdout, chunk, runs, firstOut, docs>>

\* the end of the with block: the file is closed, save_workflow returns
SaveClose ==
    /\ pc = "save_write"
    /\ chunk = WriteChunks
    /\ pc' = IF mode = "cli" THEN "saved" ELSE "idle"
    /\ firstOut' = IF firstOut = NoneVal
                   THEN [t |-> "file", out |-> fs[OutRoot].out, run |-> runs]
                   ELSE firstOut
    /\ UNCHANGED <<program, mode, args, cfgfile, fs, config, self, workflow,
                   structure, stdout, exit, chunk, runs, docs>>

-----------------------------------------------------------------------------
(* main(): the confirmation line, then the normal exit *)

Confirmation == "Successfully generated CI/CD workflow at .github/workflows/sui-ci.yml"

PrintConfirmation ==
    /\ pc = "saved"
    /\ stdout' = Append(stdout, Confirmation)
    /\ exit' = PyInt(0)
    /\ pc' = "done"
    /\ UNCHANGED <<program, mode, args, cfgfile, fs, config, self, workflow,
                   structure, chunk, runs, firstOut, docs>>

\* the user runs the script again with the same command line
Rerun ==
    /\ mode = "cli"
    /\ pc \in {"done", "failed"}
    /\ runs < MaxRuns
    /\ runs' = runs + 1
    /\ pc' = "start"
    /\ config' = NoneVal
    /\ self' = NoneVal
    /\ workflow' = NoneVal
    /\ stdout' = <<>>
    /\ exit' = NoneVal
    /\ chunk' = 0
    /\ UNCHANGED <<program, mode, args, cfgfile, fs, structure, firstOut, docs>>

-----------------------------------------------------------------------------
(* A caller of the class: the methods in any order *)

\* mutant: the probe creates tests/ when it is missing
ApiDetect_mkdir ==
    /\ mode = "api"
    /\ pc = "idle"
    /\ runs < MaxCalls
    /\ structure' = detect_project_structure(self)
    /\ fs' = [fs EXCEPT ![self.project_root].tests =
                 IF @.present THEN @ ELSE Dir({})]
    /\ runs' = runs + 1
    /\ UNCHANGED <<program, mode, args, cfgfile, pc, config, self, workflow,
                   stdout, exit, chunk, firstOut, docs>>

ApiDetect ==
    /\ mode = "api"
    /\ pc = "idle"
    /\ runs < MaxCalls
    /\ structure' = detect_project_structure(self)
    /\ runs' = runs + 1
    /\ UNCHANGED <<program, mode, args, cfgfile, fs, pc, config, self, workflow,
                   stdout, exit, chunk, firstOut, docs>>

\* mutant: generate_workflow notes in the configuration that it has run
ApiGenerate_noting ==
    /\ mode = "api"
    /\ pc = "idle"
    /\ runs < MaxCalls
    /\ workflow' = generate_workflow
    /\ docs' = Append(docs, workflow')
    /\ self' = [self EXCEPT !.config = SetItem(@, Str("generated"), Bool(TRUE))]
    /\ runs' = runs + 1
    /\ UNCHANGED <<program, mode, args, cfgfile, fs, pc, config, structure,
                   stdout, exit, chunk, firstOut>>

ApiGenerate ==
    /\ mode = "api"
    /\ pc = "idle"
    /\ runs < MaxCalls
    /\ workflow' = generate_workflow
    /\ docs' = Append(docs, workflow')
    /\ runs' = runs + 1
    /\ UNCHANGED <<program, mode, args, cfgfile, fs, pc, config, self, structure,
                   stdout, exit, chunk, firstOut>>

-----------------------------------------------------------------------------

Next ==
    \/ LoadConfigOk
    \/ LoadConfigFail
    \/ Construct
    \/ Generate
    \/ SaveMkdirOk
    \/ SaveMkdirFail
    \/ SaveOpenOk
    \/ SaveOpenFail
    \/ SaveWriteOk
    \/ SaveWriteFail
    \/ SaveClose
    \/ PrintConfirmation
    \/ Rerun
    \/ ApiDetect
    \/ ApiGenerate

Spec == Init /\ [][Next]_vars

-----------------------------------------------------------------------------
(* Reading a generated document *)

Jobs(doc) == Get(doc, "jobs")
JobNames(doc) == {k.s : k \in KeySet(Jobs(doc))}
Job(doc, name) == Get(Jobs(doc), name)
Steps(job) == Get(job, "steps").items

\* the stages a stage depends on: `needs` is one name or a list of names
Deps(job) ==
    IF ~HasKey(job, "needs") THEN {}
    ELSE LET n == Get(job, "needs") IN
         IF IsStr(n) THEN {n.s} ELSE {n.items[i].s : i \in 1..Len(n.items)}

\* the job or the step carries the push-to-main condition
Guarded(x) == HasKey(x, "if") /\ Get(x, "if") = Str(DeployGuard)

\* a step that publishes the package
IsDeployStep(st) == HasKey(st, "run") /\ Get(st, "run").s \in PublishScripts

-----------------------------------------------------------------------------
(* C1: every document generate_workflow() returns has exactly the four     *)
(* stages build, test, security and deploy; test and security depend on    *)
(* build, deploy depends on test and on security.                          *)
(* Stated for both copies of the generator: src/generate_ci.py returns the *)
(* single stage build-and-deploy, which violates it.                       *)

FourStages(doc) ==
    /\ JobNames(doc) = {"build", "test", "security", "deploy"}
    /\ Len(Jobs(doc).pairs) = 4
    /\ "build" \in Deps(Job(doc, "test"))
    /\ "build" \in Deps(Job(doc, "security"))
    /\ {"test", "security"} \subseteq Deps(Job(doc, "deploy"))

C1_FourStagesWired == workflow # NoneVal => FourStages(workflow)

-----------------------------------------------------------------------------
(* C2: in every generated document, every step that publishes the package  *)
(* is governed by the condition "push to refs/heads/main": the condition   *)
(* is on the step itself or on the job that holds the step.                *)

DeployStepsGuarded(doc) ==
    \A name \in JobNames(doc) :
        LET job == Job(doc, name) IN
        \A i \in 1..Len(Steps(job)) :
            IsDeployStep(Steps(job)[i]) =>
                Guarded(job) \/ Guarded(Steps(job)[i])

C2_DeployOnlyGuarded == workflow # NoneVal => DeployStepsGuarded(workflow)

\* the four-job copy has generated a document whose deploy job publishes
C2_Witness ==
    /\ workflow # NoneVal
    /\ program = "design"
    /\ \E i \in 1..Len(Steps(Job(workflow, "deploy"))) :
          IsDeployStep(Steps(Job(workflow, "deploy"))[i])

-----------------------------------------------------------------------------
(* C3: main() merges the --config file over the command line: a key of the *)
(* file holds the file's value in the merged configuration, a key only on  *)
(* the command line keeps the command-line value, and no other key appears.*)
(* A file {"enable_deployment": true} gives enable_deployment = true with  *)
(* or without --enable-deployment.                                         *)

\* the state right after the configuration was built from a JSON object
MergedFromObject ==
    /\ mode = "cli"
    /\ pc = "configured"
    /\ args.config # NoneVal
    /\ cfgfile.k = "json"
    /\ IsMap(cfgfile.v)

C3_ConfigFileWins ==
    MergedFromObject =>
        /\ KeySet(config) = KeySet(CliConfig(args)) \cup KeySet(cfgfile.v)
        /\ \A k \in KeySet(cfgfile.v) : Get(config, k.s) = Get(cfgfile.v, k.s)
        /\ \A k \in KeySet(CliConfig(args)) \ KeySet(cfgfile.v) :
              Get(config, k.s) = Get(CliConfig(args), k.s)
        /\ (HasKey(cfgfile.v, "enable_deployment")
              /\ Get(cfgfile.v, "enable_deployment") = Bool(TRUE))
           => Get(config, "enable_deployment") = Bool(TRUE)

\* the file says true, the command line says false, and the file won
C3_Witness ==
    /\ MergedFromObject
    /\ cfgfile.v = Map(<<KV("enable_deployment", Bool(TRUE))>>)
    /\ ~args.enable_deployment
    /\ Get(config, "enable_deployment") = Bool(TRUE)
    /\ Get(config, "project_root") = Str(args.project_root)

-----------------------------------------------------------------------------
(* C4: generate_workflow() is a pure function of the configuration: every  *)
(* document it returns equals each document it returned before for the     *)
(* same configuration (over repeated calls on one generator and over       *)
(* repeated runs of main()), and so do their serializations.               *)

C4_GenerateIsPure ==
    [][docs' # docs =>
          \A i \in 1..Len(docs) :
              /\ docs'[Len(docs')] = docs[i]
              /\ safe_dump(docs'[Len(docs')]) = safe_dump(docs[i])]_vars

\* a caller generated twice on one generator, after having probed
C4_Witness ==
    /\ mode = "api"
    /\ Len(docs) >= 2
    /\ structure # NoneVal

-----------------------------------------------------------------------------
(* C5: after every successful save the output file holds what it held      *)
(* after the first successful save, and that is exactly the serialized     *)
(* document: nothing of the content the file held before remains.          *)

SaveReturned ==
    \/ pc \in {"saved", "done"}
    \/ pc = "idle" /\ firstOut.t = "file"

C5_RerunIdempotent ==
    (SaveReturned /\ firstOut.t = "file") =>
        /\ fs[OutRoot].out = firstOut.out
        /\ firstOut.out = File(FileOf(workflow))

\* the second run of main() completed after a first run that succeeded
C5_Witness ==
    /\ mode = "cli"
    /\ pc = "done"
    /\ runs = 2
    /\ firstOut.t = "file"
    /\ firstOut.run = 1

-----------------------------------------------------------------------------
(* C6: when --config names a file that is missing, unreadable or not JSON, *)
(* no step of the run changes the filesystem or prints a line, and the run *)
(* goes nowhere but to its failure.                                        *)

ConfigUnreadable ==
    /\ mode = "cli"
    /\ args.config # NoneVal
    /\ cfgfile.k \in {"missing", "malformed"}

C6_ConfigErrorNoOutput ==
    [][ConfigUnreadable =>
          /\ fs' = fs
          /\ stdout' = <<>>
          /\ pc' \in {"start", "failed"}]_vars

\* a run given a malformed file has failed
C6_Witness ==
    /\ ConfigUnreadable
    /\ cfgfile.k = "malformed"
    /\ pc = "failed"
    /\ exit = PyInt(1)
    /\ stdout = <<>>

-----------------------------------------------------------------------------
(* C7: after a failed save_workflow the output file is absent, or holds    *)
(* its complete previous content, or holds the complete new content; it is *)
(* never empty or truncated.                                               *)
(* The code opens the file with mode 'w' before it serializes, so a write  *)
(* that fails leaves the file empty or cut short.                          *)

SaveFailed == pc = "failed" /\ workflow # NoneVal

C7_NoPartialFile ==
    SaveFailed =>
        fs[OutRoot].out \in {NoFile, File(StaleData), File(FileOf(workflow))}

-----------------------------------------------------------------------------
(* C8: detect_project_structure() reports has_move_toml exactly when       *)
(* Move.toml exists at the project root, has_tests exactly when tests/     *)
(* holds an entry named *.move, has_sources exactly when sources/ holds    *)
(* one; each flag depends on its own entry only.                           *)

HoldsMoveFile(dir) == dir.present /\ \E e \in dir.entries : e[2] = ".move"

C8_ProbeFlags ==
    structure # NoneVal =>
        LET r == fs[self.project_root] IN
        /\ structure.has_move_toml = r.move_toml
        /\ structure.has_tests = HoldsMoveFile(r.tests)
        /\ structure.has_sources = HoldsMoveFile(r.sources)

\* a mixed project: tests/ holds a .move file, sources/ exists without one,
\* and there is no Move.toml
C8_Witness ==
    /\ structure # NoneVal
    /\ fs[self.project_root].sources = Dir({OtherFile})
    /\ structure = [has_move_toml |-> FALSE, has_tests |-> TRUE,
                    has_sources |-> FALSE]

-----------------------------------------------------------------------------
(* C9: save_workflow leaves <project_root>/.github/workflows existing once *)
(* mkdir has returned, does not fail when the directory already exists,    *)
(* and when it returns the file sui-ci.yml there holds exactly the         *)
(* serialized document, whatever it held before.                           *)

MkdirReturned ==
    \/ pc \in {"save_open", "save_write", "saved", "done"}
    \/ pc = "idle" /\ firstOut.t = "file"

C9_SaveEnsuresDirAndOverwrites ==
    /\ [](MkdirReturned => fs[OutRoot].depth = 3)
    /\ [][(SaveCalled /\ fs[OutRoot].depth = 3) => pc' # "failed"]_vars
    /\ [](SaveReturned => fs[OutRoot].out = File(FileOf(workflow)))

\* the second run found the directory and the file of the first run, and
\* save_workflow returned with the file rewritten
C9_Witness ==
    /\ mode = "cli"
    /\ pc = "saved"
    /\ runs = 2
    /\ firstOut.t = "file"
    /\ firstOut.run = 1
    /\ fs[OutRoot].out = File(FileOf(workflow))

-----------------------------------------------------------------------------
(* C10: whenever generate_workflow() returns a document, reading its        *)
(* serialization back with a YAML reader gives a value equal to it: mappings, lists, the multi-line scripts    *)
(* and every key, the key 'on' included, come back as they were.           *)

-----------------------------------------------------------------------------
(* C11: in the written file every mapping is in block style and lists its  *)
(* keys in the order the generator inserted them, never re-sorted: the     *)
(* top-level keys are name, on, env, jobs, the stages come in the order of *)
(* workflow['jobs'] (build, test, security, deploy where the four stages   *)
(* exist), and so do the keys of every stage and every step.               *)

\* the keys of a written mapping, as strings, in the order written
TextKeys(y) == [i \in 1..Len(y.pairs) |-> y.pairs[i][1].text]
DocKeys(m) == [i \in 1..Len(m.pairs) |-> m.pairs[i][1].s]

\* text y writes value x with every mapping's keys in x's order, all in
\* block style
RECURSIVE OrderKept(_, _)
OrderKept(x, y) ==
    CASE x.t = "str" -> y.y = "scalar"
      [] x.t = "list" ->
            /\ y.y = "seq"
            /\ ~y.flow
            /\ Len(y.items) = Len(x.items)
            /\ \A i \in 1..Len(x.items) : OrderKept(x.items[i], y.items[i])
      [] x.t = "map" ->
            /\ y.y = "map"
            /\ ~y.flow
            /\ TextKeys(y) = DocKeys(x)
            /\ \A i \in 1..Len(x.pairs) : OrderKept(x.pairs[i][2], y.pairs[i][2])

\* what was written: every buffer of the file is a part of one text
WrittenText == fs[OutRoot].out.data[1].text

C11_KeyOrderKept ==
    pc = "saved" =>
        /\ \A i \in 1..Len(fs[OutRoot].out.data) :
              fs[OutRoot].out.data[i].text = WrittenText
        /\ OrderKept(workflow, WrittenText)
        /\ TextKeys(WrittenText) = <<"name", "on", "env", "jobs">>
        /\ program = "design" =>
              TextKeys(WrittenText.pairs[4][2]) =
                  <<"build", "test", "security", "deploy">>

\* the four-stage file is written: its stages and top-level keys are not in
\* sorted order
C11_Witness ==
    /\ pc = "saved"
    /\ program = "design"
    /\ TextKeys(WrittenText) = <<"name", "on", "env", "jobs">>
    /\ TextKeys(WrittenText.pairs[4][2]) = <<"build", "test", "security", "deploy">>
    /\ TextKeys(WrittenText.pairs[4][2].pairs[4][2]) =
          <<"name", "runs-on", "needs", "if", "env", "steps">>

-----------------------------------------------------------------------------
(* C12: the environment of the deploy stage is sourced from exactly three  *)
(* secrets, each referenced by name only (SUI_CONFIG, SUI_KEYSTORE,        *)
(* SUI_ALIASES): every publishing step has exactly these three in scope,   *)
(* no other secret is referenced anywhere, and every variable a step's     *)
(* script reads is supplied by an env mapping in scope for that step (the  *)
(* step's own or its job's).                                               *)

SecretNames == {"SUI_CONFIG", "SUI_KEYSTORE", "SUI_ALIASES"}

\* the secret an env value refers to ("" when it is a literal)
SecretOf(v) ==
    CASE v = "${{ secrets.SUI_CONFIG }}" -> "SUI_CONFIG"
      [] v = "${{ secrets.SUI_KEYSTORE }}" -> "SUI_KEYSTORE"
      [] v = "${{ secrets.SUI_ALIASES }}" -> "SUI_ALIASES"
      [] OTHER -> ""

EnvOf(x) == IF HasKey(x, "env") THEN Get(x, "env").pairs ELSE <<>>

\* the secrets an env mapping supplies, under the variable of the same name
Supplies(pairs) ==
    {pairs[i][1].s : i \in {j \in 1..Len(pairs) :
                               SecretOf(pairs[j][2].s) = pairs[j][1].s}}

\* the secrets an env mapping refers to, under any name
RefersTo(pairs) ==
    {SecretOf(pairs[i][2].s) : i \in 1..Len(pairs)} \ {""}

InScope(doc, job, st) ==
    Supplies(EnvOf(st)) \cup Supplies(EnvOf(job)) \cup Supplies(EnvOf(doc))

SecretsWired(doc) ==
    /\ \A n \in JobNames(doc) :
          LET job == Job(doc, n) IN
          /\ RefersTo(EnvOf(job)) = Supplies(EnvOf(job))
          /\ \A i \in 1..Len(Steps(job)) :
                LET st == Steps(job)[i] IN
                /\ RefersTo(EnvOf(st)) = Supplies(EnvOf(st))
                /\ HasKey(st, "run") =>
                      ScriptReads(Get(st, "run").s) \subseteq InScope(doc, job, st)
                /\ IsDeployStep(st) => InScope(doc, job, st) = SecretNames
    /\ RefersTo(EnvOf(doc)) = {}

C12_DeploySecrets == pc \in {"generated", "idle"} /\ workflow # NoneVal
                         => SecretsWired(workflow)

\* the four-job document: the deploy job carries the three secrets and its
\* publishing step reads all three
C12_Witness ==
    /\ pc = "generated"
    /\ program = "design"
    /\ Supplies(EnvOf(Job(workflow, "deploy"))) = SecretNames
    /\ \E i \in 1..Len(Steps(Job(workflow, "deploy"))) :
          /\ IsDeployStep(Steps(Job(workflow, "deploy"))[i])
          /\ ScriptReads(Get(Steps(Job(workflow, "deploy"))[i], "run").s) = SecretNames
          /\ ~HasKey(Steps(Job(workflow, "deploy"))[i], "env")

-----------------------------------------------------------------------------
(* C13: the generated document is a mapping with exactly the top-level     *)
(* keys name, on, env and jobs; name is 'Sui Smart Contract CI/CD'; on     *)
(* holds exactly push and pull_request, each scoped to the branches main   *)
(* and develop; env maps strings to strings; jobs maps stage names to      *)
(* stage descriptions (mappings that carry a list of steps).               *)

Branches == List(<<Str("main"), Str("develop")>>)

Scoped(trigger) ==
    IsMap(trigger) /\ Len(trigger.pairs) = 1 /\ Get(trigger, "branches") = Branches

StringsToStrings(m) ==
    /\ IsMap(m)
    /\ \A i \in 1..Len(m.pairs) : IsStr(m.pairs[i][1]) /\ IsStr(m.pairs[i][2])

StageDescription(job) ==
    /\ IsMap(job)
    /\ HasKey(job, "runs-on") /\ IsStr(Get(job, "runs-on"))
    /\ HasKey(job, "steps") /\ IsList(Get(job, "steps"))
    /\ \A i \in 1..Len(Steps(job)) : IsMap(Steps(job)[i])

TopLevelShape(doc) ==
    /\ IsMap(doc)
    /\ Len(doc.pairs) = 4
    /\ KeySet(doc) = {Str("name"), Str("on"), Str("env"), Str("jobs")}
    /\ Get(doc, "name") = Str("Sui Smart Contract CI/CD")
    /\ IsMap(Get(doc, "on"))
    /\ Len(Get(doc, "on").pairs) = 2
    /\ KeySet(Get(doc, "on")) = {Str("push"), Str("pull_request")}
    /\ Scoped(Get(Get(doc, "on"), "push"))
    /\ Scoped(Get(Get(doc, "on"), "pull_request"))
    /\ StringsToStrings(Get(doc, "env"))
    /\ IsMap(Get(doc, "jobs"))
    /\ Len(Get(doc, "jobs").pairs) >= 1
    /\ \A i \in 1..Len(Get(doc, "jobs").pairs) :
          /\ IsStr(Get(doc, "jobs").pairs[i][1])
          /\ StageDescription(Get(doc, "jobs").pairs[i][2])

C13_TopLevelShape == workflow # NoneVal => TopLevelShape(workflow)

\* the single-job document, whose env has a third entry, has been generated
C13_Witness ==
    /\ pc = "generated"
    /\ program = "root"
    /\ Len(Get(workflow, "env").pairs) = 3
    /\ Get(Get(workflow, "env"), "SUI_BRANCH") = Str("devnet")
    /\ Scoped(Get(Get(workflow, "on"), "pull_request"))

-----------------------------------------------------------------------------
(* C14: a run of main() that completes prints exactly one confirmation     *)
(* line and exits with status 0; a run that fails on the configuration     *)
(* file or on the output prints no confirmation and exits with a non-zero  *)
(* status; when the process has exited, the confirmation is on stdout      *)
(* exactly when this run wrote the output file completely.                 *)

\* this run of save_workflow wrote the whole document and closed the file
WroteCompletely ==
    /\ self # NoneVal
    /\ workflow # NoneVal
    /\ chunk = WriteChunks
    /\ fs[OutRoot].out # NoFile
    /\ Len(fs[OutRoot].out.data) = WriteChunks
    /\ \A i \in 1..WriteChunks :
          fs[OutRoot].out.data[i] = [text |-> safe_dump(workflow), part |-> i]

C14_ExitBehaviour ==
    mode = "cli" =>
       /\ exit \in {NoneVal, PyInt(0), PyInt(1)}
       /\ stdout \in {<<>>, <<Confirmation>>}
       /\ exit = NoneVal => stdout = <<>>
       /\ pc = "done" => exit = PyInt(0) /\ stdout = <<Confirmation>>
       /\ pc = "failed" => exit = PyInt(1) /\ stdout = <<>>
       /\ exit # NoneVal => pc \in {"done", "failed"}
       /\ exit # NoneVal => (stdout = <<Confirmation>> <=> WroteCompletely)

\* a second run has completed: one confirmation line, status 0, whole file
C14_Witness ==
    /\ mode = "cli"
    /\ pc = "done"
    /\ runs = MaxRuns
    /\ exit = PyInt(0)
    /\ stdout = <<Confirmation>>
    /\ WroteCompletely

-----------------------------------------------------------------------------
(* C15: the output goes to <project-root>/.github/workflows/sui-ci.yml,    *)
(* where project-root is the project_root of the merged configuration: the *)
(* one of the configuration file when it gives one (and then nothing is    *)
(* written under the --project-root of the command line), else the one of  *)
(* the command line, else (neither given) the current directory.           *)

FileGivesRoot ==
    /\ mode = "cli"
    /\ args.config # NoneVal
    /\ cfgfile.k = "json"
    /\ IsMap(cfgfile.v)
    /\ HasKey(cfgfile.v, "project_root")

\* argparse's default for --project-root is '.', as is config.get's
EffectiveRoot ==
    IF mode = "cli"
    THEN IF FileGivesRoot THEN Get(cfgfile.v, "project_root")
                          ELSE Str(args.project_root)
    ELSE IF HasKey(config, "project_root") THEN Get(config, "project_root")
                                           ELSE Str(".")

C15_OutputUnderProjectRoot ==
    [][\A r \in Roots :
          fs'[r] # fs[r] =>
             /\ EffectiveRoot = Str(r)
             /\ self.workflow_dir = <<r, ".github", "workflows">>
             /\ \A q \in Roots \ {r} : fs'[q] = fs[q]
             /\ fs'[r].move_toml = fs[r].move_toml
             /\ fs'[r].tests = fs[r].tests
             /\ fs'[r].sources = fs[r].sources]_vars

\* --project-root is the current directory, the file says demo: the document
\* is under demo and the current directory holds no output
C15_Witness ==
    /\ FileGivesRoot
    /\ args.project_root = "."
    /\ Get(cfgfile.v, "project_root") = Str("demo")
    /\ pc = "done"
    /\ fs["demo"].depth = 3
    /\ fs["demo"].out.present
    /\ Len(fs["demo"].out.data) = WriteChunks
    /\ fs["."].depth = 1
    /\ ~fs["."].out.present

-----------------------------------------------------------------------------
(* C16: the steps of every stage start with the checkout, then the         *)
(* environment setup, then the primary action of the stage, in that order; *)
(* a stage that deploys also has a verification step after its deploy      *)
(* action.                                                                 *)

StepName(st) == Get(st, "name").s

StepsStart(job) ==
    /\ Len(Steps(job)) >= 3
    /\ \A i \in 1..Len(Steps(job)) :
          HasKey(Steps(job)[i], "name") /\ IsStr(Get(Steps(job)[i], "name"))
    /\ Steps(job)[1] = StepCheckout
    /\ StepName(Steps(job)[2]) = "Install Homebrew and Sui"
    /\ HasKey(Steps(job)[2], "run")
    /\ HasKey(Steps(job)[3], "run")
    /\ Get(Steps(job)[3], "run").s
          \in {RunBuild, RunTest, RunLinters, RunSetupAndDeployDesign}

VerifiedAfterDeploy(job) ==
    \A i \in 1..Len(Steps(job)) :
       IsDeployStep(Steps(job)[i]) =>
          \E j \in (i + 1)..Len(Steps(job)) :
             StepName(Steps(job)[j]) = "Verify deployment"

\* the part of the claim that holds in both copies
StagesStartInOrder ==
    workflow # NoneVal =>
       \A n \in JobNames(workflow) : StepsStart(Job(workflow, n))

C16_StepOrder ==
    workflow # NoneVal =>
       \A n \in JobNames(workflow) :
          StepsStart(Job(workflow, n)) /\ VerifiedAfterDeploy(Job(workflow, n))

-----------------------------------------------------------------------------
(* C17: each of the stages test, security and deploy carries `needs` as a  *)
(* list of stage names (a sequence, not a bare string), and the build      *)
(* stage carries no `needs` at all.                                        *)

NeedsIsListOfStages(doc, job) ==
    /\ HasKey(job, "needs")
    /\ IsList(Get(job, "needs"))
    /\ Len(Get(job, "needs").items) >= 1
    /\ \A i \in 1..Len(Get(job, "needs").items) :
          /\ IsStr(Get(job, "needs").items[i])
          /\ Get(job, "needs").items[i].s \in JobNames(doc)

C17_NeedsIsList ==
    workflow # NoneVal =>
       \A n \in JobNames(workflow) :
          /\ n = "build" => ~HasKey(Job(workflow, n), "needs")
          /\ n \in {"test", "security", "deploy"} =>
                NeedsIsListOfStages(workflow, Job(workflow, n))

\* what the code does instead: deploy has a list, test and security a name
NeedsAsWritten ==
    (workflow # NoneVal /\ program = "design") =>
       /\ ~HasKey(Job(workflow, "build"), "needs")
       /\ Get(Job(workflow, "test"), "needs") = Str("build")
       /\ Get(Job(workflow, "security"), "needs") = Str("build")
       /\ NeedsIsListOfStages(workflow, Job(workflow, "deploy"))

-----------------------------------------------------------------------------
(* C18: a run of main() is one linear pass in a fixed order: the           *)
(* configuration is complete (the configuration file merged in) before the *)
(* document is built; the document is built before the output directory is *)
(* created or the output file opened; the file is written before the       *)
(* confirmation is printed; no step is taken twice within one run.         *)

\* the position of each statement of main() in the pass
Rank(p) ==
    CASE p = "start" -> 0
      [] p = "configured" -> 1
      [] p = "constructed" -> 2
      [] p = "generated" -> 3
      [] p = "save_open" -> 4
      [] p = "save_write" -> 5
      [] p = "saved" -> 6
      [] p = "done" -> 7
      [] p = "failed" -> 8

\* what main() has as `config` once the with-block is over
LoadedConfig ==
    IF args.config = NoneVal THEN CliConfig(args)
    ELSE update(CliConfig(args), cfgfile.v)

SameRun == mode = "cli" /\ runs' = runs

C18_LinearPass ==
    [][SameRun =>
          \* forward only, one statement at a time; the only step that stays
          \* in place is the next buffer of the one safe_dump call
          /\ \/ pc' = "failed" /\ pc \notin {"saved", "done", "failed"}
             \/ Rank(pc') = Rank(pc) + 1 /\ pc' # "failed"
             \/ pc = "save_write" /\ pc' = pc /\ chunk' = chunk + 1
          \* the document is built from the complete configuration
          /\ workflow' # workflow =>
                /\ workflow = NoneVal
                /\ config = LoadedConfig
                /\ config' = config
                /\ fs' = fs
          \* the filesystem is touched only with the document at hand
          /\ fs' # fs => workflow # NoneVal /\ workflow' = workflow
          \* the confirmation comes after the last buffer and the close
          /\ stdout' # stdout =>
                /\ pc = "saved"
                /\ chunk = WriteChunks
                /\ Len(fs[OutRoot].out.data) = WriteChunks
                /\ fs' = fs]_vars

\* a run that merged a configuration file went through to the confirmation
C18_Witness ==
    /\ mode = "cli"
    /\ pc = "done"
    /\ args.config # NoneVal
    /\ cfgfile.k = "json"
    /\ config = LoadedConfig
    /\ config # CliConfig(args)
    /\ workflow # NoneVal
    /\ Len(fs[OutRoot].out.data) = WriteChunks
    /\ stdout = <<Confirmation>>

-----------------------------------------------------------------------------
(* C19: the probe of the project directory does not gate generation: the   *)
(* document generate_workflow() returns and the bytes save_workflow writes *)
(* are the same for every state of the project directory (Move.toml,       *)
(* tests/, sources/ present or not, probed or not), and main() never uses  *)
(* the probe.                                                              *)

\* the document of each copy, written without reference to the filesystem,
\* the probe result or the configuration
DocumentOf(p) ==
    IF p = "design" THEN generate_workflow_design ELSE generate_workflow_root

SaveReturns == pc = "save_write" /\ pc' \in {"saved", "idle"}

C19_ProbeDoesNotGate ==
    [][/\ (workflow' # workflow /\ workflow' # NoneVal) =>
             workflow' = DocumentOf(program)
       /\ SaveReturns => fs[OutRoot].out.data = FileOf(DocumentOf(program))
       /\ mode = "cli" => structure' = NoneVal]_vars

\* a project root with no Move.toml, no tests/ and no sources/ got the
\* whole document
C19_Witness ==
    /\ mode = "cli"
    /\ pc = "done"
    /\ ~fs[OutRoot].move_toml
    /\ ~fs[OutRoot].tests.present
    /\ ~fs[OutRoot].sources.present
    /\ Len(Jobs(workflow).pairs) >= 1
    /\ fs[OutRoot].out.data = FileOf(DocumentOf(program))

-----------------------------------------------------------------------------
(* C20: enable_deployment is recorded in the configuration but does not    *)
(* alter the generated content: whether the flag is true, false or absent  *)
(* (on the command line or in the configuration file), generate_workflow() *)
(* returns the same document, and the deploy stage or steps are in it.     *)

FlagOf(c) ==
    IF HasKey(c, "enable_deployment") THEN Get(c, "enable_deployment")
                                      ELSE NoneVal

\* what main() records: the value of the file when it has one, else the
\* command line's
FlagGiven ==
    IF args.config # NoneVal /\ IsMap(cfgfile.v)
          /\ HasKey(cfgfile.v, "enable_deployment")
    THEN Get(cfgfile.v, "enable_deployment")
    ELSE Bool(args.enable_deployment)

DeployPresent(doc) ==
    /\ \E n \in JobNames(doc) :
          \E i \in 1..Len(Steps(Job(doc, n))) : IsDeployStep(Steps(Job(doc, n))[i])
    /\ program = "design" => "deploy" \in JobNames(doc)

-----------------------------------------------------------------------------
(* C21: a run of main() fails only because the configuration file is       *)
(* missing, unreadable or not JSON, or because the output directory or     *)
(* file cannot be created or written: a run given no --config, or a file   *)
(* of valid JSON of any shape and with any project_root, fails nowhere     *)
(* else.                                                                   *)

\* the file named by --config was read and parsed
ConfigParsed == args.config # NoneVal /\ cfgfile.k = "json"

\* the failure came before save_workflow was called
FailedBeforeSave == mode = "cli" /\ pc = "failed" /\ workflow = NoneVal

C21_OnlyTwoFailures == FailedBeforeSave => ConfigUnreadable

\* the failures the claim leaves out: dict.update() rejects the parsed
\* value, or Path() rejects a project_root that is no string
ShapeFailures ==
    (FailedBeforeSave /\ ~ConfigUnreadable) =>
       /\ ConfigParsed
       /\ \/ ~Updatable(cfgfile.v)
          \/ ~IsStr(ConfiguredRoot(config))

-----------------------------------------------------------------------------
(* C22: detect_project_structure() has no side effects: a call leaves the  *)
(* filesystem, the generator's configuration, project_root and             *)
(* workflow_dir as they were, and what generate_workflow() returns and     *)
(* save_workflow() writes after any number of calls is what they produce   *)
(* without any.                                                            *)

\* a step of a caller that is a call of detect_project_structure: it
\* returns to the caller, builds no document and opens no file
DetectStep ==
    /\ mode = "api"
    /\ pc = "idle"
    /\ pc' = "idle"
    /\ runs' = runs + 1
    /\ docs' = docs

Probed == structure # NoneVal

C22_DetectHasNoSideEffect ==
    [][/\ DetectStep =>
             /\ fs' = fs
             /\ self' = self
             /\ config' = config
             /\ workflow' = workflow
             /\ stdout' = stdout
       /\ (Probed /\ docs' # docs) => workflow' = DocumentOf(program)
       /\ (Probed /\ SaveReturns) =>
             fs[OutRoot].out.data = FileOf(DocumentOf(program))]_vars

\* a caller probed a root that has no tests/ yet, then generated and saved
C22_Witness ==
    /\ mode = "api"
    /\ Probed
    /\ ~structure.has_tests
    /\ ~fs[self.project_root].tests.present
    /\ firstOut.t = "file"
    /\ fs[OutRoot].out.data = FileOf(DocumentOf(program))

-----------------------------------------------------------------------------
(* C23: the configuration is built once per invocation and never changes   *)
(* afterwards: once SuiCIGenerator(config) is constructed, no call of      *)
(* detect_project_structure(), generate_workflow() or save_workflow()      *)
(* changes a key or a value of the configuration, nor the project_root and *)
(* workflow_dir derived from it.                                           *)

Constructed == self # NoneVal

\* the next invocation of the script starts with nothing
NextInvocation == mode = "cli" /\ runs' = runs + 1 /\ self' = NoneVal

C23_ConfigImmutable ==
    /\ [](Constructed =>
            /\ self.config = config
            /\ self.project_root = ConfiguredRoot(config).s
            /\ self.workflow_dir = WorkflowDir(self.project_root))
    /\ [][Constructed =>
            \/ self' = self /\ config' = config
            \/ NextInvocation]_vars

\* a caller made all its calls, a probe and a save among them, on a
\* generator whose configuration names the root demo
C23_Witness ==
    /\ mode = "api"
    /\ runs = MaxCalls
    /\ Probed
    /\ firstOut.t = "file"
    /\ self.config = Map(<<KV("project_root", Str("demo"))>>)
    /\ self.workflow_dir = <<"demo", ".github", "workflows">>

-----------------------------------------------------------------------------
(* C24: the dependency references of every generated document are          *)
(* well-formed: every name in a stage's `needs` is a key of `jobs`, no     *)
(* stage depends on itself, the relation is acyclic, build is the only     *)
(* stage without dependencies, every other stage depends on build directly *)
(* or through other stages, deploy among them.                             *)

RECURSIVE Upstream(_, _, _)
\* the stages reached from the set `from` by following `needs` up to k times
Upstream(doc, from, k) ==
    IF k = 0 THEN from
    ELSE LET next == from \cup UNION {Deps(Job(doc, n)) : n \in from \cap JobNames(doc)}
         IN IF next = from THEN from ELSE Upstream(doc, next, k - 1)

\* everything stage n depends on, directly or not
AllDeps(doc, n) == Upstream(doc, Deps(Job(doc, n)), Cardinality(JobNames(doc)))

\* the part that needs no particular stage to exist
ReferencesSound(doc) ==
    \A n \in JobNames(doc) :
       /\ Deps(Job(doc, n)) \subseteq JobNames(doc)
       /\ n \notin Deps(Job(doc, n))
       /\ n \notin AllDeps(doc, n)

RootedAtBuild(doc) ==
    /\ {n \in JobNames(doc) : Deps(Job(doc, n)) = {}} = {"build"}
    /\ \A n \in JobNames(doc) \ {"build"} : "build" \in AllDeps(doc, n)
    /\ "deploy" \in JobNames(doc)
    /\ "build" \in AllDeps(doc, "deploy")

ReferencesAreSound == workflow # NoneVal => ReferencesSound(workflow)

RootedInDesign ==
    (workflow # NoneVal /\ program = "design") => RootedAtBuild(workflow)

C24_DependenciesWellFormed ==
    workflow # NoneVal =>
       ReferencesSound(workflow) /\ RootedAtBuild(workflow)

-----------------------------------------------------------------------------
(* C25: the filesystem footprint of a run is the output path: the          *)
(* constructor and generate_workflow() write nothing; save_workflow()      *)
(* creates only the directories on the way to                              *)
(* <project_root>/.github/workflows (project_root itself when it is        *)
(* missing, which is no error) and creates or rewrites only sui-ci.yml     *)
(* there; every other entry stays as it was.                               *)

ConstructStep == self = NoneVal /\ self' # NoneVal
GenerateStep == docs' # docs
InSave == SaveCalled \/ pc \in {"save_open", "save_write"}

\* the root r changed by directories of the output path being created
DirsCreated(r) ==
    /\ fs'[r].depth > fs[r].depth
    /\ fs'[r].depth <= 3
    /\ fs'[r].out = fs[r].out

\* the root r changed by sui-ci.yml being created, emptied or extended
FileWritten(r) ==
    /\ fs[r].depth = 3
    /\ fs'[r].depth = 3
    /\ fs'[r].out.present
    /\ fs'[r].out # fs[r].out

C25_FootprintIsOutputPath ==
    /\ []((SaveCalled /\ fs[OutRoot].depth = 0) => ENABLED SaveMkdirOk)
    /\ [][/\ (ConstructStep \/ GenerateStep) => fs' = fs
          /\ fs' # fs =>
                /\ InSave
                /\ \A r \in Roots \ {OutRoot} : fs'[r] = fs[r]
                /\ fs'[OutRoot].move_toml = fs[OutRoot].move_toml
                /\ fs'[OutRoot].tests = fs[OutRoot].tests
                /\ fs'[OutRoot].sources = fs[OutRoot].sources
                /\ DirsCreated(OutRoot) \/ FileWritten(OutRoot)
          /\ (SaveCalled /\ pc' = "save_open") => fs'[OutRoot].depth = 3]_vars

\* a caller saved under demo, which holds a tests/ without Move sources: the
\* file is there, tests/ and the current directory are as they were
C25_Witness ==
    /\ mode = "api"
    /\ self # NoneVal
    /\ self.project_root = "demo"
    /\ firstOut.t = "file"
    /\ fs["demo"].depth = 3
    /\ fs["demo"].out.present
    /\ fs["demo"].tests = Dir({OtherFile})
    /\ ~fs["demo"].sources.present
    /\ fs["."] = FullLayout(<<1, NoFile>>)

=============================================================================
